---- MODULE Spec2Model ----
(***************************************************************************)
(* A model of the risk scoring and classification engine of the DeFi risk  *)
(* assessor (src/defi_complete_risk_assessment.py): DeFiRiskAssessor's     *)
(* assess_token and the functions it calls.                                *)
(*                                                                         *)
(* Numbers.  Component scores move in steps of 0.5, so a component score   *)
(* is kept in HALF POINTS (score * 2).  A weight is kept in HUNDREDTHS     *)
(* (weight * 100).  score * weight * 10 is then (half points * hundredths) *)
(* / 20, so the composite score is kept in TWENTIETHS (score * 20).        *)
(***************************************************************************)
EXTENDS Integers, Sequences, FiniteSets, Bags, TLC

(***************************************************************************)
(* Bounds of the model.                                                    *)
(***************************************************************************)
\* at most this many scoring functions meet an unexpected exception in one
\* assessment
MaxFaults == 1
\* the longest red-flag list handed to the aggregation loop on its own
MaxFlags == 3

(***************************************************************************)
(* Units.                                                                  *)
(***************************************************************************)
\* n points as a component score (half points)
HalfPoints(n) == 2 * n
\* n points as a composite score (twentieths)
Twentieths(n) == 20 * n

Max(a, b) == IF a >= b THEN a ELSE b
Min(a, b) == IF a <= b THEN a ELSE b

(***************************************************************************)
(* Configuration set up by DeFiRiskAssessor.__init__.                      *)
(***************************************************************************)
\* RED_FLAGS: the list of {'check', 'risk_boost'} entries, in list order
RED_FLAGS ==
  << [check |-> "is_proxy_contract",        risk_boost |-> 20],
     [check |-> "has_honeypot_pattern",     risk_boost |-> 30],
     [check |-> "owner_change_last_24h",    risk_boost |-> 15],
     [check |-> "lp_lock_expiring_soon",    risk_boost |-> 25],
     [check |-> "unverified_contract",      risk_boost |-> 15],
     [check |-> "low_liquidity",            risk_boost |-> 12],
     [check |-> "high_concentration",       risk_boost |-> 15],
     [check |-> "eu_unlicensed_stablecoin", risk_boost |-> 50],
     [check |-> "eu_regulatory_issues",     risk_boost |-> 40],
     [check |-> "mica_non_compliant",       risk_boost |-> 35],
     [check |-> "mica_no_whitepaper",       risk_boost |-> 0] >>

\* the keys of WEIGHTS in insertion order (the order of every loop over it)
Components ==
  << "industry_impact", "tech_innovation", "whitepaper_quality",
     "roadmap_adherence", "business_model", "team_expertise",
     "management_strategy", "global_reach", "code_security", "dev_activity",
     "aml_data", "compliance_data", "market_dynamics", "marketing_demand",
     "esg_impact" >>

ComponentNames == { Components[i] : i \in 1..Len(Components) }

\* WEIGHTS, in hundredths
WEIGHTS ==
  [ industry_impact |-> 9, tech_innovation |-> 9, whitepaper_quality |-> 7,
    roadmap_adherence |-> 7, business_model |-> 9, team_expertise |-> 8,
    management_strategy |-> 7, global_reach |-> 5, code_security |-> 8,
    dev_activity |-> 7, aml_data |-> 5, compliance_data |-> 5,
    market_dynamics |-> 5, marketing_demand |-> 6, esg_impact |-> 2 ]

\* CHAIN_CONFIG: the supported chains, with the one entry the engine reads
CHAIN_CONFIG ==
  [ eth |-> [min_liquidity |-> 5000000],
    bsc |-> [min_liquidity |-> 3000000],
    uni |-> [min_liquidity |-> 5000000] ]

\* the keys an entry of CHAIN_CONFIG has: there is no 'chain_id'
ChainConfigKeys ==
  { "rpc", "scan_url", "scan_key", "coin_id", "dex", "min_liquidity",
    "token_info_action", "coingecko_platform" }

(***************************************************************************)
(* Token addresses (lower case) the code names.                            *)
(***************************************************************************)
USDT  == "0xdac17f958d2ee523a2206206994597c13d831ec7"
USDC  == "0xa0b86a33e6441b8c4c8c0b8c4c8c0b8c4c8c0b8c"
DAI   == "0x6b175474e89094c44da98b954eedeac495271d0f"
BUSD  == "0x4fabb145d64652a948d72533023f6e7a623c7c53"
FRAX  == "0x853d955acef822db058eb8505911ed77f175b99e"
UNI   == "0x1f9840a85d5af5bf1d1762f925bdaddc4201f984"
SUSHI == "0x6b3595068778dd592e39a122f4f5a5cf09c90fe2"
LINK  == "0x514910771af9ca656af840dff83e8264ecf986ca"
SAND  == "0x3845badade8e6dff049820680d1f14bd3903a5d0"
GRT   == "0xc944e90c64b2c07662a292be6244bdf05cda44a7"
WBNB  == "0xbb4cdb9cbd36b01bd1cbaebf2de08d9173bc095c"
\* an address no table of the code knows
UNLISTED == "0x00000000000000000000000000000000000000aa"
\* the USDT address as a caller writes it (EIP-55 mixed case)
USDT_CHECKSUM == "0xdAC17F958D2ee523a2206206994597C13D831ec7"

\* str.lower() on the strings the model passes around
Lower(s) ==
  CASE s = USDT_CHECKSUM -> USDT
    [] s = "ETH" -> "eth"
    [] s = "BSC" -> "bsc"
    [] s = "UNI" -> "uni"
    [] s = "Solana" -> "solana"
    [] OTHER -> s

\* str.upper() on the symbols the model passes around
Upper(s) ==
  CASE s = "usdt" -> "USDT"
    [] s = "Dai" -> "DAI"
    [] OTHER -> s

\* a fetched value that is not a number (a JSON string or null): every
\* ordering comparison with it raises TypeError
NonNumeric == -1
\* contract_age_days = None
NoAge == -2

(***************************************************************************)
(* Aggregation and classification (assess_token, classify_risk).           *)
(***************************************************************************)
RECURSIVE FirstBoost(_, _)
\* next((f['risk_boost'] for f in RED_FLAGS if f['check'] == flag), 0),
\* scanning the list from position i
FirstBoost(flag, i) ==
  IF i > Len(RED_FLAGS) THEN 0
  ELSE IF RED_FLAGS[i].check = flag THEN RED_FLAGS[i].risk_boost
  ELSE FirstBoost(flag, i + 1)

RiskBoost_Negated(flag) == 0 - Twentieths(FirstBoost(flag, 1))
\* the boost one flag of the list adds to total_risk_score
RiskBoost(flag) == Twentieths(FirstBoost(flag, 1))

\* component_scores[component] * weight * 10, in twentieths
WeightedScore(score, component) == score * WEIGHTS[component]

RECURSIVE WeightedSum(_, _)
\* the loop 'for component, weight in self.WEIGHTS.items()' from position i
WeightedSum(scores, i) ==
  IF i > Len(Components) THEN 0
  ELSE WeightedScore(scores[Components[i]], Components[i])
         + WeightedSum(scores, i + 1)

RECURSIVE BoostSum(_)
\* the loop 'for flag in risk_report['onchain']['red_flags']': one boost per
\* list entry (flags is the list as a bag: a flag listed twice counts twice)
BoostSum(flags) ==
  IF flags = EmptyBag THEN 0
  ELSE LET f == CHOOSE x \in BagToSet(flags) : TRUE
       IN  RiskBoost(f) + BoostSum(flags (-) SetToBag({f}))

ClampTotal_NoCeiling(total) == Max(0, total)
\* total_risk_score = min(150, max(0, total_risk_score))
ClampTotal(total) == Min(Twentieths(150), Max(0, total))

OverrideFlags ==
  { "eu_unlicensed_stablecoin", "eu_regulatory_issues", "mica_non_compliant" }

\* the thresholds of classify_risk, on a score in twentieths
StandardCategory_Exclusive(score) ==
  IF score < Twentieths(50) THEN "Low Risk"
  ELSE IF score < Twentieths(100) THEN "Medium Risk"
  ELSE IF score < Twentieths(120) THEN "High Risk"
  ELSE "Extreme Risk"
\* the standard thresholds of classify_risk
StandardCategory(score) ==
  IF score <= Twentieths(50) THEN "Low Risk"
  ELSE IF score <= Twentieths(100) THEN "Medium Risk"
  ELSE IF score <= Twentieths(120) THEN "High Risk"
  ELSE "Extreme Risk"

classify_risk_NoMicaOverride(score, has_report, red_flags) ==
  IF has_report /\ BagIn("eu_unlicensed_stablecoin", red_flags)
    THEN "Extreme Risk"
  ELSE IF has_report /\ BagIn("eu_regulatory_issues", red_flags)
    THEN "Extreme Risk"
  ELSE IF score <= Twentieths(50) THEN "Low Risk"
  ELSE IF score <= Twentieths(100) THEN "Medium Risk"
  ELSE IF score <= Twentieths(120) THEN "High Risk"
  ELSE "Extreme Risk"
\* classify_risk(score, risk_report): has_report is 'if risk_report:',
\* red_flags the report's onchain red_flags
classify_risk(score, has_report, red_flags) ==
  IF has_report /\ BagIn("eu_unlicensed_stablecoin", red_flags)
    THEN "Extreme Risk"
  ELSE IF has_report /\ BagIn("eu_regulatory_issues", red_flags)
    THEN "Extreme Risk"
  ELSE IF has_report /\ BagIn("mica_non_compliant", red_flags)
    THEN "Extreme Risk"
  ELSE StandardCategory(score)

\* round(total_risk_score, 2): twentieths to hundredths
Round2(total) == 5 * total

(***************************************************************************)
(* The 15 scoring functions.  What a function computes before its last     *)
(* line (the base score 5 moved by the deltas of its signal cascades) is   *)
(* its input raw, in half points; the last line and the except clause are  *)
(* modelled as written.                                                    *)
(***************************************************************************)
\* Python's round() of a score in half points to whole points (a tie goes
\* to the even neighbour)
PyRound(h) ==
  IF h % 2 = 0 THEN h \div 2
  ELSE LET f == (h - 1) \div 2 IN IF f % 2 = 0 THEN f ELSE f + 1

Clamp10_NoCeiling(h) == Max(HalfPoints(1), h)
\* return max(1, min(10, score))
Clamp10(h) == Max(HalfPoints(1), Min(HalfPoints(10), h))

\* score = max(1, min(9, round(score)))
Clamp9(h) == HalfPoints(Max(1, Min(9, PyRound(h))))

\* the functions that end in the rounding clamp
RoundedComponents == { "dev_activity", "aml_data", "compliance_data" }

\* the value the function's own 'except Exception' returns
ErrorDefault(component) ==
  IF component = "esg_impact" THEN HalfPoints(5) ELSE HalfPoints(7)

\* critical_flags of score_compliance_data
CriticalFlags ==
  { "eu_unlicensed_stablecoin", "eu_regulatory_issues", "mica_non_compliant",
    "mica_no_whitepaper" }

\* score_compliance_data after its signals have brought the score to raw:
\* 3 points for each critical flag among the red flags, at least 7 when no
\* data was found, and the rounding clamp
score_compliance_data(raw, red_flags, data_found) ==
  LET penalty ==
        HalfPoints(3)
          * Cardinality({ f \in CriticalFlags : BagIn(f, red_flags) })
      score == raw + penalty
  IN  Clamp9(IF data_found THEN score ELSE Max(score, HalfPoints(7)))

\* score_<component>: exc says an unexpected exception occurs inside the
\* function.  score_aml_data has no try block, so the exception leaves it.
ScoreFunction(component, raw, exc, red_flags, data_found) ==
  IF exc
    THEN IF component = "aml_data"
           THEN [raised |-> TRUE, score |-> 0]
           ELSE [raised |-> FALSE, score |-> ErrorDefault(component)]
    ELSE [raised |-> FALSE,
          score |-> IF component = "compliance_data"
                      THEN score_compliance_data(raw, red_flags, data_found)
                    ELSE IF component \in RoundedComponents
                      THEN Clamp9(raw)
                    ELSE Clamp10(raw)]

\* the body of the scoring loop of assess_token: the call, and 7 on an
\* exception that reaches the loop
LoopScore(component, raw, exc, red_flags, data_found) ==
  LET r == ScoreFunction(component, raw, exc, red_flags, data_found)
  IN  IF r.raised THEN HalfPoints(7) ELSE r.score

(***************************************************************************)
(* What the external sources answer for one token (the world), and the     *)
(* functions that read it.                                                 *)
(*   verified    the explorer's verification status                        *)
(*   holders     the holder count the sources report                       *)
(*   top10       the top-10 concentration they report, or NonNumeric       *)
(*   liquidity   the 24h volume CoinGecko reports as liquidity, or         *)
(*               NonNumeric                                                *)
(*   age         the contract age in days, or NoAge                        *)
(*   volume      the 24h volume detect_red_flags reads                     *)
(*   proxy       the verified source holds a proxy pattern                 *)
(*   well_known  the address is a key of cmc_symbol_map.json               *)
(*   data_found  the sources give score_compliance_data at least one of    *)
(*               the signals that set its data_found                       *)
(*   certik      what CertiK reports: "none", "audited_high" (audited,     *)
(*               score at least 80), "audited", "unaudited", "other"       *)
(*   scorechain  the Scorechain riskLevel ("high", "medium", "low",        *)
(*               "unknown"), or "error" when the request fails             *)
(*   trm         the class of the TRM Labs riskScore, or "error"           *)
(***************************************************************************)
\* the dict well_known_verified of get_contract_verification_status
WellKnownVerified == { USDT, USDC, DAI, LINK, UNI, SUSHI, SAND, GRT, WBNB }

get_contract_verification_status(token, chain, w) ==
  IF chain \notin DOMAIN CHAIN_CONFIG THEN "unknown"
  ELSE IF Lower(token) \in WellKnownVerified THEN "verified"
  ELSE w.verified

\* get_holder_data: round(top10_concentration, 2) raises on a value that is
\* not a number
get_holder_data(token, chain, w) ==
  IF chain \notin DOMAIN CHAIN_CONFIG
    THEN [raised |-> FALSE, total_holders |-> 0, top10_concentration |-> 100]
  ELSE IF w.top10 = NonNumeric
    THEN [raised |-> TRUE, total_holders |-> 0, top10_concentration |-> 100]
  ELSE [raised |-> FALSE, total_holders |-> w.holders,
        top10_concentration |-> w.top10]

\* get_liquidity_data: a truthy CoinGecko value is returned as it is
get_liquidity_data(token, chain, w) ==
  IF chain \notin DOMAIN CHAIN_CONFIG THEN 0 ELSE w.liquidity

\* detect_red_flags: the flags appended before the first exception (its try
\* block returns what was collected so far)
detect_red_flags(token, chain, w) ==
  IF chain \notin DOMAIN CHAIN_CONFIG THEN EmptyBag
  ELSE
    LET is_well_known == w.well_known
        liquidity == get_liquidity_data(token, chain, w)
        min_liquidity == CHAIN_CONFIG[chain].min_liquidity
        liquidity_raises == ~is_well_known /\ liquidity = NonNumeric
        low == IF ~is_well_known /\ liquidity > 0 /\ liquidity < min_liquidity
                 THEN {"low_liquidity"} ELSE {}
        holders == get_holder_data(token, chain, w)
        conc == IF /\ ~is_well_known
                   /\ holders.total_holders > 0
                   /\ \/ holders.top10_concentration > 80
                      \/ holders.total_holders < 1000
                  THEN {"high_concentration"} ELSE {}
        contract_verified == get_contract_verification_status(token, chain, w)
        unver == IF /\ ~is_well_known
                    /\ contract_verified # "verified"
                    /\ \/ (w.age # NoAge /\ w.age < 90)
                       \/ w.volume < 50000
                   THEN {"unverified_contract"} ELSE {}
        proxy == IF w.proxy THEN {"is_proxy_contract"} ELSE {}
    IN  IF liquidity_raises THEN EmptyBag
        ELSE IF holders.raised THEN SetToBag(low)
        ELSE SetToBag(low \cup conc \cup unver \cup proxy)

(***************************************************************************)
(* The fact record (risk_report) and the compliance pass.                  *)
(***************************************************************************)
\* what the compliance functions and score_whitepaper_quality read of
\* market.coingecko: whether the description holds a keyword of each list,
\* its length ("none", "short" under 50 characters, "brief" up to 200,
\* "detailed" up to 500, "long" above), the links (homepage, whitepaper,
\* repos_url.github, how many of the three social links and of the five
\* professional links are set) and market_data.market_cap.usd
EmptyProject ==
  [ stable_indicator |-> FALSE, stable_keyword |-> FALSE,
    eu_establishment |-> FALSE, mica_authorization |-> FALSE,
    whitepaper |-> FALSE, homepage |-> FALSE, github |-> FALSE,
    social_presence |-> 0, professional_links |-> 0,
    description |-> "none", market_cap |-> 0 ]

\* risk_report as assess_token creates it ("absent": the key is not set)
NewReport(token) ==
  [ token |-> token, symbol |-> "",
    contract_verified |-> "unknown",
    total_holders |-> 0, top10_concentration |-> 100,
    liquidity |-> 0, red_flags |-> EmptyBag,
    project |-> EmptyProject,
    eu_compliance |-> "absent", mica_category |-> "absent",
    is_stablecoin |-> "absent", eu_compliance_status |-> "absent",
    oneinch |-> "absent" ]

\* list.append(flag)
Append1(flags, flag) == flags (+) SetToBag({flag})

\* 'if flag not in red_flags: red_flags.append(flag)'
AppendIfAbsent(flags, flag) ==
  IF BagIn(flag, flags) THEN flags ELSE Append1(flags, flag)

\* unlicensed_stablecoins: address -> eu_status
UnlicensedStablecoins ==
  [ a \in {USDT, USDC, DAI, BUSD, FRAX} |->
      CASE a = USDT -> "Unlicensed"
        [] a = USDC -> "Restricted"
        [] a = DAI  -> "Unclear"
        [] a = BUSD -> "Restricted"
        [] a = FRAX -> "Unclear" ]

MajorUnlicensedSymbols == { "USDT", "USDC", "DAI", "BUSD", "FRAX" }

\* eu_regulatory_issues: address -> eu_status
EuRegulatoryIssues == [ a \in {UNI, SUSHI} |-> "Restricted" ]

\* any(indicator in symbol.lower() for indicator in stablecoin_indicators),
\* on the symbols of the model
SymbolHasStableIndicator(symbol) ==
  symbol \in { "USDT", "USDC", "DAI", "BUSD", "FRAX", "GUSD", "EURS" }

assess_mica_compliance(rr, symbol, project_data) ==
  IF SymbolHasStableIndicator(symbol) \/ project_data.stable_indicator
    THEN
      IF /\ ~BagIn("eu_unlicensed_stablecoin", rr.red_flags)
         /\ \/ ~project_data.eu_establishment
            \/ ~project_data.mica_authorization
        THEN [rr EXCEPT !.mica_category = "Asset-Referenced Token (ART)",
                        !.red_flags = Append1(@, "mica_non_compliant"),
                        !.eu_compliance = "Non-Compliant"]
        ELSE [rr EXCEPT !.mica_category = "Asset-Referenced Token (ART)"]
    ELSE
      IF ~project_data.whitepaper
        THEN [rr EXCEPT !.mica_category = "Utility Token",
                        !.red_flags = Append1(@, "mica_no_whitepaper")]
        ELSE [rr EXCEPT !.mica_category = "Utility Token"]

apply_eu_regulatory_checks_NoReturn(rr) ==
  LET token_address == Lower(rr.token)
      symbol == Upper(rr.symbol)
      r0 == IF token_address \in DOMAIN UnlicensedStablecoins
              THEN [rr EXCEPT
                      !.red_flags =
                         AppendIfAbsent(@, "eu_unlicensed_stablecoin"),
                      !.eu_compliance = UnlicensedStablecoins[token_address]]
            ELSE IF symbol \in MajorUnlicensedSymbols
              THEN [rr EXCEPT
                      !.red_flags =
                         AppendIfAbsent(@, "eu_unlicensed_stablecoin"),
                      !.eu_compliance = "Unlicensed"]
            ELSE IF rr.eu_compliance = "absent"
              THEN [rr EXCEPT !.eu_compliance = "Unknown"]
            ELSE rr
      r1 == IF token_address \in DOMAIN EuRegulatoryIssues
              THEN [r0 EXCEPT
                      !.red_flags = AppendIfAbsent(@, "eu_regulatory_issues"),
                      !.eu_compliance = EuRegulatoryIssues[token_address]]
              ELSE r0
  IN  assess_mica_compliance(r1, symbol, r1.project)
\* apply_eu_regulatory_checks: each stablecoin branch ends in 'return'
apply_eu_regulatory_checks(rr) ==
  LET token_address == Lower(rr.token)
      symbol == Upper(rr.symbol)
      r0 == IF rr.eu_compliance = "absent"
              THEN [rr EXCEPT !.eu_compliance = "Unknown"] ELSE rr
  IN  IF token_address \in DOMAIN UnlicensedStablecoins
        THEN [r0 EXCEPT
                !.red_flags = AppendIfAbsent(@, "eu_unlicensed_stablecoin"),
                !.eu_compliance = UnlicensedStablecoins[token_address]]
      ELSE IF symbol \in MajorUnlicensedSymbols
        THEN [r0 EXCEPT
                !.red_flags = AppendIfAbsent(@, "eu_unlicensed_stablecoin"),
                !.eu_compliance = "Unlicensed"]
      ELSE
        LET r1 == IF token_address \in DOMAIN EuRegulatoryIssues
                    THEN [r0 EXCEPT
                            !.red_flags =
                               AppendIfAbsent(@, "eu_regulatory_issues"),
                            !.eu_compliance =
                               EuRegulatoryIssues[token_address]]
                    ELSE r0
        IN  assess_mica_compliance(r1, symbol, r1.project)

apply_strict_compliance_checks_EuOnly(rr, chain) ==
  [ raised |-> FALSE,
    report |-> IF chain \notin DOMAIN CHAIN_CONFIG
                 THEN rr ELSE apply_eu_regulatory_checks(rr) ]
\* apply_strict_compliance_checks: raised says a comparison of steps 2-4
\* raised TypeError (those steps are in no try block)
apply_strict_compliance_checks(rr, chain) ==
  IF chain \notin DOMAIN CHAIN_CONFIG THEN [raised |-> FALSE, report |-> rr]
  ELSE
    LET r1 == apply_eu_regulatory_checks(rr)
        min_liquidity == CHAIN_CONFIG[chain].min_liquidity
        r2 == IF r1.liquidity < min_liquidity
                THEN [r1 EXCEPT !.red_flags = Append1(@, "low_liquidity")]
                ELSE r1
        r3 == IF r2.contract_verified # "verified"
                THEN [r2 EXCEPT
                        !.red_flags = Append1(@, "unverified_contract")]
                ELSE r2
        r4 == IF r3.top10_concentration > 50 \/ r3.total_holders < 1000
                THEN [r3 EXCEPT
                        !.red_flags = Append1(@, "high_concentration")]
                ELSE r3
    IN  IF r1.liquidity = NonNumeric THEN [raised |-> TRUE, report |-> r1]
        ELSE IF r3.top10_concentration = NonNumeric
          THEN [raised |-> TRUE, report |-> r3]
        ELSE [raised |-> FALSE, report |-> r4]

StablecoinSymbols ==
  { "USDT", "USDC", "DAI", "BUSD", "FRAX", "TUSD", "USDP", "GUSD", "LUSD",
    "SUSD" }

is_stablecoin(token, symbol, project_data) ==
  \/ Lower(token) \in {USDT, USDC, DAI, BUSD, FRAX}
  \/ Upper(symbol) \in StablecoinSymbols
  \/ project_data.stable_keyword

get_eu_compliance_status(rr) ==
  IF BagIn("eu_unlicensed_stablecoin", rr.red_flags)
    THEN "Non-Compliant (Unlicensed Stablecoin)"
  ELSE IF BagIn("eu_regulatory_issues", rr.red_flags)
    THEN "Non-Compliant (Regulatory Issues)"
  ELSE IF BagIn("mica_non_compliant", rr.red_flags)
    THEN "Non-Compliant (MiCA)"
  ELSE IF BagIn("mica_no_whitepaper", rr.red_flags)
    THEN "Limited Compliance (No Whitepaper)"
  ELSE IF rr.eu_compliance \in {"Unlicensed", "Restricted"}
    THEN "Non-Compliant (" \o rr.eu_compliance \o ")"
  ELSE IF rr.eu_compliance = "Compliant" THEN "Compliant"
  ELSE IF rr.eu_compliance = "absent" THEN "Unknown"
  ELSE "Limited Compliance (" \o rr.eu_compliance \o ")"

(***************************************************************************)
(* State.                                                                  *)
(*   token, chain      the arguments of assess_token                       *)
(*   world, keys, raw  the surroundings of the call: the answers of the    *)
(*                     external sources, whether the optional API keys are *)
(*                     set, and the value the signal cascades of the       *)
(*                     scoring functions reach on this fact record         *)
(*   pc                the position inside assess_token (or inside the     *)
(*                     aggregation loop / classify_risk run on their own)  *)
(*   risk_report       the fact record                                     *)
(*   data              the local 'data' of fetch_onchain_data              *)
(*   component_scores  component -> stored score, 0 while not stored       *)
(*   idx               the position of a loop over WEIGHTS                 *)
(*   raised            the components whose scoring function met an        *)
(*                     unexpected exception                                *)
(*   total_risk_score  the accumulator of the aggregation                  *)
(*   result            the returned dict                                   *)
(*   fetches           external fetch calls issued so far                  *)
(*   executed          the kinds of step executed so far                   *)
(***************************************************************************)
VARIABLES token, chain, world, keys, raw, pc, risk_report, data,
          component_scores, idx, raised, total_risk_score, result, fetches,
          executed

\* process_token_batch: the token list, the worker threads of its
\* ThreadPoolExecutor (what each is doing, its token, the value it loaded
\* for 'fallback_count += 1'), how many tokens were handed to a worker,
\* results, the two counters, the summary file, and the two flags the
\* assessments share: the module global _breadcrumbs_blocked and the
\* analyzer's bitquery_available
VARIABLES tokens, workers, submitted, results, fallback_count,
          api_error_count, breadcrumbs_blocked, bitquery_available, summary

\* working_progress_bar.py: the two module globals, what
\* initialize_progress_bar returned, and the number of calls made
VARIABLES working_progress_bar, console_progress_bar, progress_type, calls

batch_vars == << tokens, workers, submitted, results, fallback_count,
                 api_error_count, breadcrumbs_blocked, bitquery_available,
                 summary >>

bar_vars == << working_progress_bar, console_progress_bar, progress_type,
               calls >>

assess_vars == << token, chain, world, keys, raw, pc, risk_report, data,
                  component_scores, idx, raised, total_risk_score, result,
                  fetches, executed >>

vars == << assess_vars, batch_vars, bar_vars >>

\* the summary file before it is written
NoSummary == [ written |-> FALSE, total |-> 0, fallback |-> 0,
               api_errors |-> 0 ]

\* no batch is running
NoBatch ==
  /\ tokens = << >>
  /\ workers = << >>
  /\ submitted = 0
  /\ results = << >>
  /\ fallback_count = 0
  /\ api_error_count = 0
  /\ breadcrumbs_blocked = FALSE
  /\ bitquery_available = TRUE
  /\ summary = NoSummary

\* None, as the value of one of the two progress-bar globals: object says
\* whether the global holds an object (is truthy)
NoneBar ==
  [ object |-> FALSE, total_tokens |-> 0, current_token |-> 0,
    current_phase |-> 0, completed_phases |-> 0, total_phases |-> 0,
    is_running |-> FALSE, finished |-> FALSE ]

\* the module globals of working_progress_bar.py as the import leaves them
NoBar ==
  /\ working_progress_bar = NoneBar
  /\ console_progress_bar = NoneBar
  /\ progress_type = "none"
  /\ calls = 0

NoScores == [c \in ComponentNames |-> 0]

NoResult ==
  [ risk_score |-> 0, risk_category |-> "", error |-> "", details |-> "none",
    component_scores |-> NoScores ]

\* 'data' as fetch_onchain_data creates it
NewData ==
  [ contract_verified |-> "unknown", total_holders |-> 0,
    top10_concentration |-> 100, liquidity |-> 0, red_flags |-> EmptyBag ]

ErrorResult_NoCategory(message) ==
  [ risk_score |-> 5 * Twentieths(150), risk_category |-> "",
    error |-> message, details |-> "error",
    component_scores |-> [c \in ComponentNames |-> 0] ]
\* the dict both early exits of assess_token return
ErrorResult(message) ==
  [ risk_score |-> Round2(Twentieths(150)), risk_category |-> "Extreme Risk",
    error |-> message, details |-> "error", component_scores |-> NoScores ]

(***************************************************************************)
(* Inputs of the assessment.                                               *)
(***************************************************************************)
ChainArgs == { "eth", "UNI", "Solana" }
TokenArgs == { USDT_CHECKSUM, UNLISTED }
\* pre-clamp cascade values, half points: below 1, 5.5, 8.5, above 10
RawScores == { -3, 11, 17, 25 }
Worlds ==
  [ verified : {"unverified"}, holders : {0, 5000},
    top10 : {100, NonNumeric}, liquidity : {0, 1000, NonNumeric},
    age : {NoAge}, volume : {0}, proxy : {FALSE, TRUE},
    well_known : {FALSE}, data_found : BOOLEAN,
    certik : {"none"}, scorechain : {"error"}, trm : {"error"} ]

InitOver(chains, addresses, worlds, raws) ==
  /\ token \in addresses
  /\ chain \in chains
  /\ world \in worlds
  /\ keys \in BOOLEAN
  /\ raw \in raws
  /\ pc = "start"
  /\ risk_report = NewReport(token)
  /\ data = NewData
  /\ component_scores = NoScores
  /\ idx = 1
  /\ raised = {}
  /\ total_risk_score = 0
  /\ result = NoResult
  /\ fetches = 0
  /\ executed = {}
  /\ NoBatch /\ NoBar

Init == InitOver(ChainArgs, TokenArgs, Worlds, RawScores)

Step(kind) == executed' = executed \cup {kind}

(***************************************************************************)
(* assess_token, one action per step of its body.                          *)
(***************************************************************************)
UnsupportedResult_NoName(c) ==
  [ risk_score |-> 5 * Twentieths(150), risk_category |-> "Extreme Risk",
    error |-> "Unsupported chain", details |-> "error",
    component_scores |-> [n \in ComponentNames |-> 0] ]
\* the chain check at the head of assess_token
UnsupportedResult(c) == ErrorResult("Unsupported chain: " \o c)

\* chain = chain.lower(); the unsupported-chain exit; the new risk_report
Start ==
  /\ pc = "start"
  /\ chain' = Lower(chain)
  /\ IF chain' \notin DOMAIN CHAIN_CONFIG
       THEN /\ result' = UnsupportedResult(chain')
            /\ pc' = "done"
       ELSE /\ result' = result
            /\ pc' = "fetch_onchain"
  /\ risk_report' = NewReport(token)
  /\ UNCHANGED << token, world, keys, raw, data, component_scores, idx,
                  raised, total_risk_score, fetches, executed >>
  /\ UNCHANGED << batch_vars, bar_vars >>

MergeOnchain_KeepExisting(rr, d) ==
  [rr EXCEPT !.contract_verified = d.contract_verified,
             !.total_holders = d.total_holders,
             !.top10_concentration = d.top10_concentration,
             !.liquidity = d.liquidity,
             !.red_flags = rr.red_flags]
\* assess_token's merge of what fetch_onchain_data returned:
\* onchain.update(onchain_data), red_flags = list(set(existing + new))
MergeOnchain(rr, d) ==
  [rr EXCEPT !.contract_verified = d.contract_verified,
             !.total_holders = d.total_holders,
             !.top10_concentration = d.top10_concentration,
             !.liquidity = d.liquidity,
             !.red_flags = SetToBag(BagToSet(rr.red_flags (+) d.red_flags))]

\* fetch_onchain_data, "Basic on-chain data".  An exception of
\* get_holder_data ends the function in its except clause: it returns the
\* data filled so far and assess_token merges it.
FetchOnchainBasic ==
  /\ pc = "fetch_onchain"
  /\ LET v == get_contract_verification_status(token, chain, world)
         h == get_holder_data(token, chain, world)
         l == get_liquidity_data(token, chain, world)
     IN  IF h.raised
           THEN /\ data' = [NewData EXCEPT !.contract_verified = v]
                /\ risk_report' = MergeOnchain(risk_report, data')
                /\ pc' = "fetch_market"
           ELSE /\ data' = [NewData EXCEPT
                              !.contract_verified = v,
                              !.total_holders = h.total_holders,
                              !.top10_concentration = h.top10_concentration,
                              !.liquidity = l]
                /\ risk_report' = risk_report
                /\ pc' = "detect"
  /\ fetches' = fetches + 1
  /\ Step("fetch")
  /\ UNCHANGED << token, chain, world, keys, raw, component_scores, idx,
                  raised, total_risk_score, result >>
  /\ UNCHANGED << batch_vars, bar_vars >>

\* fetch_onchain_data, "Advanced on-chain checks": detect_red_flags, which
\* asks the sources again
DetectRedFlags ==
  /\ pc = "detect"
  /\ data' = [data EXCEPT !.red_flags = detect_red_flags(token, chain, world)]
  /\ fetches' = fetches + 1
  /\ Step("detect")
  /\ pc' = "fetch_onchain_extra"
  /\ UNCHANGED << token, chain, world, keys, raw, risk_report,
                  component_scores, idx, raised, total_risk_score, result >>
  /\ UNCHANGED << batch_vars, bar_vars >>

\* fetch_onchain_data, BitQuery and Breadcrumbs (both need their key), then
\* the merge in assess_token
FetchOnchainExtra ==
  /\ pc = "fetch_onchain_extra"
  /\ fetches' = fetches + (IF keys THEN 1 ELSE 0)
  /\ risk_report' = MergeOnchain(risk_report, data)
  /\ Step("fetch")
  /\ pc' = "fetch_market"
  /\ UNCHANGED << token, chain, world, keys, raw, data, component_scores,
                  idx, raised, total_risk_score, result >>
  /\ UNCHANGED << batch_vars, bar_vars >>

\* fetch_market_data (CoinGecko needs no key).  What it returns holds only
\* market_data, community_data and developer_data: no 'symbol', no 'name',
\* no description and no links, so symbol and project stay as created.  An
\* exception is caught by the try around the step.
FetchMarket ==
  /\ pc = "fetch_market"
  /\ fetches' = fetches + 1
  /\ Step("fetch")
  /\ pc' = "fetch_security"
  /\ UNCHANGED << token, chain, world, keys, raw, risk_report, data,
                  component_scores, idx, raised, total_risk_score, result >>
  /\ UNCHANGED << batch_vars, bar_vars >>

\* the requests fetch_security_reports issues
SecurityFetches(c, k) == IF c \in {"eth", "bsc"} /\ k THEN 1 ELSE 0

FetchSecurity ==
  /\ pc = "fetch_security"
  /\ fetches' = fetches + SecurityFetches(chain, keys)
  /\ Step("fetch")
  /\ pc' = "fetch_enhanced"
  /\ UNCHANGED << token, chain, world, keys, raw, risk_report, data,
                  component_scores, idx, raised, total_risk_score, result >>
  /\ UNCHANGED << batch_vars, bar_vars >>

\* fetch_enhanced_data (DeFiLlama needs no key)
FetchEnhanced ==
  /\ pc = "fetch_enhanced"
  /\ fetches' = fetches + 1
  /\ Step("fetch")
  /\ pc' = "fetch_santiment"
  /\ UNCHANGED << token, chain, world, keys, raw, risk_report, data,
                  component_scores, idx, raised, total_risk_score, result >>
  /\ UNCHANGED << batch_vars, bar_vars >>

\* fetch_santiment_data returns {} at once without SANTIMENT_API_KEY
FetchSantiment ==
  /\ pc = "fetch_santiment"
  /\ fetches' = fetches + (IF keys THEN 1 ELSE 0)
  /\ Step("fetch")
  /\ pc' = "compliance"
  /\ UNCHANGED << token, chain, world, keys, raw, risk_report, data,
                  component_scores, idx, raised, total_risk_score, result >>
  /\ UNCHANGED << batch_vars, bar_vars >>

\* str(e) of the TypeError a comparison with a non-number raises
TypeErrorText == "'<' not supported between instances of 'str' and 'int'"

\* "Phase 2": apply_strict_compliance_checks, called outside every inner
\* try: its exception reaches the outer except, which returns the fallback
ComplianceCheck ==
  /\ pc = "compliance"
  /\ LET r == apply_strict_compliance_checks(risk_report, chain)
     IN  /\ risk_report' = r.report
         /\ IF r.raised
              THEN /\ result' = ErrorResult(TypeErrorText)
                   /\ pc' = "done"
              ELSE /\ result' = result
                   /\ pc' = "compliance_info"
  /\ Step("compliance")
  /\ UNCHANGED << token, chain, world, keys, raw, data, component_scores,
                  idx, raised, total_risk_score, fetches >>
  /\ UNCHANGED << batch_vars, bar_vars >>

\* "Add stablecoin and EU compliance information"
ComplianceInfo ==
  /\ pc = "compliance_info"
  /\ risk_report' =
       [risk_report EXCEPT
          !.is_stablecoin =
             IF is_stablecoin(token, risk_report.symbol, risk_report.project)
               THEN "True" ELSE "False",
          !.eu_compliance_status = get_eu_compliance_status(risk_report)]
  /\ Step("compliance")
  /\ idx' = 1
  /\ pc' = "score"
  /\ UNCHANGED << token, chain, world, keys, raw, data, component_scores,
                  raised, total_risk_score, result, fetches >>
  /\ UNCHANGED << batch_vars, bar_vars >>

\* the external fetches score_<component> issues: score_aml_data calls
\* fetch_security_reports, fetch_scorechain_aml and fetch_trmlabs_aml,
\* score_compliance_data calls OpenSanctions, Lukka, Alchemy (with their
\* keys) and DeFiSafety (no key)
ScoringFetches(component, c, k, exc) ==
  CASE component = "aml_data" ->
         SecurityFetches(c, k) + (IF ~exc /\ k THEN 2 ELSE 0)
    [] component = "compliance_data" ->
         IF exc THEN 0 ELSE (IF k THEN 3 ELSE 0) + 1
    [] OTHER -> 0

\* one pass of 'for component in self.WEIGHTS.keys()'
ScoreComponent ==
  /\ pc = "score"
  /\ \E exc \in BOOLEAN :
       LET component == Components[idx]
       IN  /\ exc => Cardinality(raised) < MaxFaults
           /\ component_scores' =
                [component_scores EXCEPT
                   ![component] =
                      LoopScore(component, raw, exc, risk_report.red_flags,
                                world.data_found)]
           /\ raised' = IF exc THEN raised \cup {component} ELSE raised
           /\ fetches' = fetches + ScoringFetches(component, chain, keys, exc)
  /\ Step("score")
  /\ idx' = idx + 1
  /\ pc' = IF idx = Len(Components) THEN "aggregate" ELSE "score"
  /\ UNCHANGED << token, chain, world, keys, raw, risk_report, data,
                  total_risk_score, result >>
  /\ UNCHANGED << batch_vars, bar_vars >>

\* "Calculating final risk score": the weighted sum, the boosts, the clamp
Aggregate ==
  /\ pc = "aggregate"
  /\ total_risk_score' =
       ClampTotal(WeightedSum(component_scores, 1)
                    + BoostSum(risk_report.red_flags))
  /\ Step("aggregate")
  /\ pc' = "finish"
  /\ UNCHANGED << token, chain, world, keys, raw, risk_report, data,
                  component_scores, idx, raised, result, fetches >>
  /\ UNCHANGED << batch_vars, bar_vars >>

\* the 1inch enrichment and the return.  CHAIN_CONFIG[chain]['chain_id']
\* raises KeyError before enrich_with_1inch_data is called, and the except
\* stores the error.
Finish ==
  /\ pc = "finish"
  /\ IF "chain_id" \in ChainConfigKeys
       THEN /\ risk_report' = [risk_report EXCEPT !.oneinch = "data"]
            /\ fetches' = fetches + 1
       ELSE /\ risk_report' = [risk_report EXCEPT !.oneinch = "error"]
            /\ fetches' = fetches
  /\ result' =
       [ risk_score |-> Round2(total_risk_score),
         risk_category |->
           classify_risk(total_risk_score, TRUE, risk_report.red_flags),
         error |-> "", details |-> "report",
         component_scores |-> component_scores ]
  /\ Step("return")
  /\ pc' = "done"
  /\ UNCHANGED << token, chain, world, keys, raw, data, component_scores,
                  idx, raised, total_risk_score >>
  /\ UNCHANGED << batch_vars, bar_vars >>

Next ==
  \/ Start
  \/ FetchOnchainBasic
  \/ DetectRedFlags
  \/ FetchOnchainExtra
  \/ FetchMarket
  \/ FetchSecurity
  \/ FetchEnhanced
  \/ FetchSantiment
  \/ ComplianceCheck
  \/ ComplianceInfo
  \/ ScoreComponent
  \/ Aggregate
  \/ Finish

Spec == Init /\ [][Next]_vars

(***************************************************************************)
(* The aggregation of assess_token on its own, over every dict of          *)
(* component scores and every red-flag list of at most MaxFlags entries:   *)
(* the two loops read their next input at each pass.                       *)
(***************************************************************************)
\* the values a stored component score takes: 1, 1.5, ... 10
StoredScores == HalfPoints(1)..HalfPoints(10)

\* flag names a red-flag list may hold: the boost table and a name outside
FlagNames ==
  { RED_FLAGS[i].check : i \in 1..Len(RED_FLAGS) } \cup {"unknown_flag"}

QuietWorld ==
  [ verified |-> "verified", holders |-> 5000, top10 |-> 40,
    liquidity |-> 9000000, age |-> 400, volume |-> 100000, proxy |-> FALSE,
    well_known |-> FALSE, data_found |-> TRUE,
    certik |-> "none", scorechain |-> "error", trm |-> "error" ]

InitAgg ==
  /\ token = UNLISTED
  /\ chain = "eth"
  /\ world = QuietWorld
  /\ keys = FALSE
  /\ raw = 11
  /\ pc = "agg_components"
  /\ risk_report = NewReport(token)
  /\ data = NewData
  /\ component_scores = NoScores
  /\ idx = 1
  /\ raised = {}
  /\ total_risk_score = 0
  /\ result = NoResult
  /\ fetches = 0
  /\ executed = {}
  /\ NoBatch /\ NoBar

\* total_risk_score += component_scores[component] * weight * 10
AggComponent ==
  /\ pc = "agg_components"
  /\ \E score \in StoredScores :
       total_risk_score' =
         total_risk_score + WeightedScore(score, Components[idx])
  /\ IF idx = Len(Components)
       THEN idx' = 1 /\ pc' = "agg_flags"
       ELSE idx' = idx + 1 /\ pc' = pc
  /\ UNCHANGED << token, chain, world, keys, raw, risk_report, data,
                  component_scores, raised, result, fetches, executed >>
  /\ UNCHANGED << batch_vars, bar_vars >>

\* one pass of 'for flag in risk_report['onchain']['red_flags']'; the
\* flags read so far are kept in the record
AggFlag ==
  /\ pc = "agg_flags"
  /\ idx <= MaxFlags
  /\ \E flag \in FlagNames :
       /\ total_risk_score' = total_risk_score + RiskBoost(flag)
       /\ risk_report' =
            [risk_report EXCEPT !.red_flags = Append1(@, flag)]
  /\ idx' = idx + 1
  /\ UNCHANGED << token, chain, world, keys, raw, pc, data,
                  component_scores, raised, result, fetches, executed >>
  /\ UNCHANGED << batch_vars, bar_vars >>

\* the end of the flag list: the clamp, and the 'risk_score' of the result
AggClamp ==
  /\ pc = "agg_flags"
  /\ total_risk_score' = ClampTotal(total_risk_score)
  /\ result' = [result EXCEPT !.risk_score = Round2(total_risk_score')]
  /\ pc' = "agg_clamped"
  /\ UNCHANGED << token, chain, world, keys, raw, risk_report, data,
                  component_scores, idx, raised, fetches, executed >>
  /\ UNCHANGED << batch_vars, bar_vars >>

NextAgg == AggComponent \/ AggFlag \/ AggClamp

SpecAgg == InitAgg /\ [][NextAgg]_vars

(***************************************************************************)
(* classify_risk on its own, over every score of the 0-150 scale and the   *)
(* red-flag lists of ClassifyFlags.                                        *)
(***************************************************************************)
ClassifyFlags ==
  { SetToBag(S) :
      S \in SUBSET { "eu_unlicensed_stablecoin", "eu_regulatory_issues",
                     "mica_non_compliant", "mica_no_whitepaper",
                     "low_liquidity" } }

InitClassify ==
  /\ token = UNLISTED
  /\ chain = "eth"
  /\ world = QuietWorld
  /\ keys = FALSE
  /\ raw = 11
  /\ pc = "classify"
  /\ \E flags \in ClassifyFlags :
       risk_report = [NewReport(token) EXCEPT !.red_flags = flags]
  /\ data = NewData
  /\ component_scores = NoScores
  /\ idx = 1
  /\ raised = {}
  /\ total_risk_score \in 0..Twentieths(150)
  /\ result = NoResult
  /\ fetches = 0
  /\ executed = {}
  /\ NoBatch /\ NoBar

Classify ==
  /\ pc = "classify"
  /\ result' =
       [result EXCEPT
          !.risk_category =
             classify_risk(total_risk_score, TRUE, risk_report.red_flags)]
  /\ pc' = "classified"
  /\ UNCHANGED << token, chain, world, keys, raw, risk_report, data,
                  component_scores, idx, raised, total_risk_score, fetches,
                  executed >>
  /\ UNCHANGED << batch_vars, bar_vars >>

NextClassify == Classify

SpecClassify == InitClassify /\ [][NextClassify]_vars

(***************************************************************************)
(* Properties.                                                             *)
(***************************************************************************)
RiskCategories == { "Low Risk", "Medium Risk", "High Risk", "Extreme Risk" }

\* C1: after the weighted sum and every red-flag boost, the clamped
\* composite score lies in [0, 150], for every combination of component
\* scores and every collection of flags.
C1_CompositeInRange ==
  pc = "agg_clamped" =>
    /\ total_risk_score >= 0
    /\ total_risk_score <= Twentieths(150)
    /\ result.risk_score >= 0
    /\ result.risk_score <= 15000

\* a clamped total whose boosts had carried the sum past the ceiling
C1_Witness ==
  /\ pc = "agg_clamped"
  /\ idx = MaxFlags + 1
  /\ total_risk_score = Twentieths(150)

\* C2: every component score the scoring loop stores lies in [1, 10], also
\* when the scoring function returns its error default or raises.
C2_ComponentScoresInRange ==
  /\ \A c \in ComponentNames :
       component_scores[c] # 0 =>
         /\ component_scores[c] >= HalfPoints(1)
         /\ component_scores[c] <= HalfPoints(10)
  /\ \A c \in ComponentNames :
       result.component_scores[c] # 0 =>
         /\ result.component_scores[c] >= HalfPoints(1)
         /\ result.component_scores[c] <= HalfPoints(10)

\* a finished assessment whose cascades ran past 10 and in which one
\* scoring function failed
C2_Witness ==
  /\ pc = "done"
  /\ result.details = "report"
  /\ raw > HalfPoints(10)
  /\ raised # {}
  /\ \A c \in ComponentNames : result.component_scores[c] # 0

C4_ThresholdsWithoutOverride ==
  (/\ pc = "classified"
   /\ \A f \in OverrideFlags : ~ BagIn(f, risk_report.red_flags))
    => result.risk_category =
         (IF total_risk_score <= 1000 THEN "Low Risk"
          ELSE IF total_risk_score <= 2000 THEN "Medium Risk"
          ELSE IF total_risk_score <= 2400 THEN "High Risk"
          ELSE "Extreme Risk")

\* score exactly 50 with mica_no_whitepaper and low_liquidity present
C4_Witness ==
  /\ pc = "classified"
  /\ total_risk_score = Twentieths(50)
  /\ risk_report.red_flags = SetToBag({"mica_no_whitepaper", "low_liquidity"})
  /\ result.risk_category = "Low Risk"

\* C5: for a chain outside CHAIN_CONFIG the assessment returns at once
\* score 150, "Extreme Risk" and the error "Unsupported chain: <chain>",
\* and no fetch, flag, compliance or scoring step has run.
C5_UnsupportedChain ==
  (pc = "done" /\ chain \notin DOMAIN CHAIN_CONFIG) =>
    /\ result.risk_score = 15000
    /\ result.risk_category = "Extreme Risk"
    /\ result.error = "Unsupported chain: " \o chain
    /\ fetches = 0
    /\ executed = {}
    /\ component_scores = NoScores
    /\ data = NewData
    /\ risk_report.red_flags = EmptyBag

C5_Witness ==
  /\ pc = "done"
  /\ chain = "solana"
  /\ result.error = "Unsupported chain: solana"
  /\ result.risk_score = 15000

\* C6: whatever step fails, assess_token does not raise: it ends by
\* returning a result whose score lies in [0, 150] and whose category is
\* one of the four names.
C6_AlwaysAValidResult ==
  /\ pc = "done" =>
       /\ result.details \in {"report", "error"}
       /\ result.risk_score >= 0
       /\ result.risk_score <= 15000
       /\ result.risk_category \in RiskCategories
  /\ pc # "done" => ENABLED Next

\* the compliance pass failed and the call still returned a result
C6_Witness ==
  /\ pc = "done"
  /\ chain \in DOMAIN CHAIN_CONFIG
  /\ "compliance" \in executed
  /\ result.error = TypeErrorText
  /\ result.risk_category \in RiskCategories

\* C7: for a supported chain one assessment passes through Fetching,
\* FlagDetection, ComplianceCheck, Scoring, Aggregation, Done in that
\* order: every step stays in its state or enters the next one.
C7_StatesInOrder ==
  [][LET AssessorState(p) ==
           CASE p \in {"start", "fetch_onchain", "fetch_onchain_extra",
                       "fetch_market", "fetch_security", "fetch_enhanced",
                       "fetch_santiment"} -> 1
             [] p = "detect" -> 2
             [] p \in {"compliance", "compliance_info"} -> 3
             [] p = "score" -> 4
             [] p \in {"aggregate", "finish"} -> 5
             [] OTHER -> 6
     IN  pc # "start" =>
           AssessorState(pc') \in {AssessorState(pc), AssessorState(pc) + 1}
    ]_vars

\* C8: no scoring function starts before every fetch has settled, and no
\* external fetch is issued once scoring has started.
C8_NoFetchOnceScoring ==
  [][(pc = "score" \/ "score" \in executed) => fetches' = fetches]_vars

\* C9: on a supported chain the fallback result (150, "Extreme Risk",
\* error) is returned only when the failure comes before any data was
\* gathered; a later failure leaves the gathered data in place and the
\* assessment goes on.
C9_FallbackOnlyBeforeData ==
  (pc = "done" /\ chain \in DOMAIN CHAIN_CONFIG /\ result.details = "error")
    => "fetch" \notin executed

\* C10: an unexpected exception inside the scoring function of any of the
\* 15 components leaves the recorded score of that component at exactly 7.
C10_ExceptionScoresSeven ==
  \A c \in raised : component_scores[c] = HalfPoints(7)

(***************************************************************************)
(* assess_token over the on-chain answers that the red-flag conditions     *)
(* read: both sides of every threshold of detect_red_flags and of          *)
(* apply_strict_compliance_checks.                                         *)
(***************************************************************************)
FlagWorlds ==
  [ verified : {"verified", "unverified"}, holders : {0, 500, 5000},
    top10 : {40, 60, 100}, liquidity : {0, 1000, 9000000},
    age : {NoAge, 400}, volume : {0, 100000}, proxy : {FALSE},
    well_known : BOOLEAN, data_found : {TRUE},
    certik : {"none"}, scorechain : {"error"}, trm : {"error"} ]

InitFlags ==
  /\ InitOver({"eth"}, {UNLISTED, LINK}, FlagWorlds, {11})
  /\ keys = FALSE

SpecFlags == InitFlags /\ [][Next]_vars

\* C11: once a detection or compliance pass has run, the red flags of the
\* fact record hold every flag name at most once.
C11_FlagsAtMostOnce ==
  ("detect" \in executed \/ "compliance" \in executed) =>
    \A f \in BagToSet(risk_report.red_flags) :
      CopiesIn(f, risk_report.red_flags) = 1

\* C12: a well-known token has none of low_liquidity, high_concentration,
\* unverified_contract in the red flags of its finished assessment.
C12_WellKnownExempt ==
  (pc = "done" /\ result.details = "report" /\ world.well_known) =>
    /\ ~ BagIn("low_liquidity", risk_report.red_flags)
    /\ ~ BagIn("high_concentration", risk_report.red_flags)
    /\ ~ BagIn("unverified_contract", risk_report.red_flags)

\* C13: in the red flags of a finished assessment each of low_liquidity,
\* high_concentration and unverified_contract is present only under the
\* condition the flag rule gives for it.
C13_FlagsOnlyUnderTheirCondition ==
  (pc = "done" /\ result.details = "report") =>
    /\ BagIn("low_liquidity", risk_report.red_flags) =>
         /\ risk_report.liquidity > 0
         /\ risk_report.liquidity < CHAIN_CONFIG[chain].min_liquidity
         /\ ~ world.well_known
    /\ BagIn("high_concentration", risk_report.red_flags) =>
         /\ \/ risk_report.top10_concentration > 80
            \/ risk_report.total_holders < 1000
         /\ risk_report.total_holders > 0
         /\ ~ world.well_known
    /\ BagIn("unverified_contract", risk_report.red_flags) =>
         /\ risk_report.contract_verified # "verified"
         /\ ~ world.well_known
         /\ \/ (world.age # NoAge /\ world.age < 90)
            \/ world.volume < 50000

ComplianceTokens ==
  { USDT_CHECKSUM, USDC, DAI, BUSD, FRAX, UNI, SUSHI, UNLISTED }

ComplianceSymbols ==
  { "", "usdt", "USDC", "Dai", "BUSD", "FRAX", "UNI", "EURS" }

Projects ==
  [ stable_indicator : BOOLEAN, stable_keyword : {FALSE},
    eu_establishment : BOOLEAN, mica_authorization : BOOLEAN,
    whitepaper : BOOLEAN, homepage : {FALSE}, github : {FALSE},
    social_presence : {0}, professional_links : {0},
    description : {"detailed"}, market_cap : {0} ]

InitCompliance ==
  /\ token \in ComplianceTokens
  /\ chain = "eth"
  /\ world = QuietWorld
  /\ keys = FALSE
  /\ raw = 11
  /\ pc = "compliance"
  /\ \E symbol \in ComplianceSymbols, project \in Projects,
        liquidity \in {0, 9000000},
        flags \in {EmptyBag, SetToBag({"low_liquidity"})} :
       risk_report =
         [NewReport(token) EXCEPT
            !.symbol = symbol, !.project = project,
            !.contract_verified = "verified", !.total_holders = 5000,
            !.top10_concentration = 40, !.liquidity = liquidity,
            !.red_flags = flags]
  /\ data = NewData
  /\ component_scores = NoScores
  /\ idx = 1
  /\ raised = {}
  /\ total_risk_score = 0
  /\ result = NoResult
  /\ fetches = 0
  /\ executed = {}
  /\ NoBatch /\ NoBar

NextCompliance == ComplianceCheck \/ ComplianceInfo

SpecCompliance == InitCompliance /\ [][NextCompliance]_vars

\* C15: whenever the lower-cased address or the upper-cased symbol is in
\* the curated stablecoin set, after the compliance pass the record holds
\* eu_unlicensed_stablecoin and its EU compliance status is 'Unlicensed'.
C15_UnlicensedStatus ==
  (/\ "compliance" \in executed
   /\ \/ Lower(token) \in DOMAIN UnlicensedStablecoins
      \/ Upper(risk_report.symbol) \in MajorUnlicensedSymbols) =>
    /\ BagIn("eu_unlicensed_stablecoin", risk_report.red_flags)
    /\ risk_report.eu_compliance = "Unlicensed"

\* C16: when the unlicensed-stablecoin rule has matched, the pass has
\* added none of eu_regulatory_issues, mica_non_compliant and
\* mica_no_whitepaper and has not run the MiCA category assessment.
C16_UnlicensedShortCircuits ==
  (/\ "compliance" \in executed
   /\ BagIn("eu_unlicensed_stablecoin", risk_report.red_flags)) =>
    /\ ~ BagIn("eu_regulatory_issues", risk_report.red_flags)
    /\ ~ BagIn("mica_non_compliant", risk_report.red_flags)
    /\ ~ BagIn("mica_no_whitepaper", risk_report.red_flags)
    /\ risk_report.mica_category = "absent"

\* a match by symbol on a record without a whitepaper link, which the MiCA
\* assessment would have flagged
C16_Witness ==
  /\ "compliance" \in executed
  /\ token = UNLISTED
  /\ risk_report.symbol = "usdt"
  /\ ~ risk_report.project.whitepaper
  /\ BagIn("eu_unlicensed_stablecoin", risk_report.red_flags)
  /\ risk_report.mica_category = "absent"

NeutralFlags ==
  { SetToBag(S \cup {"mica_no_whitepaper"}) :
      S \in SUBSET { "low_liquidity", "high_concentration",
                     "is_proxy_contract" } }

InitNeutral ==
  /\ token = UNLISTED
  /\ chain = "eth"
  /\ world \in { [QuietWorld EXCEPT !.data_found = b] : b \in BOOLEAN }
  /\ keys = FALSE
  /\ raw \in RawScores
  /\ pc = "score"
  /\ \E flags \in NeutralFlags :
       risk_report = [NewReport(token) EXCEPT !.red_flags = flags]
  /\ data = NewData
  /\ component_scores = NoScores
  /\ idx = 1
  /\ raised = {}
  /\ total_risk_score = 0
  /\ result = NoResult
  /\ fetches = 0
  /\ executed = {}
  /\ NoBatch /\ NoBar

\* scoring loop, aggregation and return of assess_token in one step, on the
\* record without mica_no_whitepaper and with no exception in any scoring
\* function
AssessTwin ==
  /\ pc = "done"
  /\ result.details = "report"
  /\ raised = {}
  /\ BagIn("mica_no_whitepaper", risk_report.red_flags)
  /\ LET flags == risk_report.red_flags (-) SetToBag({"mica_no_whitepaper"})
         scores == [ c \in ComponentNames |->
                       LoopScore(c, raw, FALSE, flags, world.data_found) ]
         total == ClampTotal(WeightedSum(scores, 1) + BoostSum(flags))
     IN  /\ risk_report' = [risk_report EXCEPT !.red_flags = flags]
         /\ component_scores' = scores
         /\ total_risk_score' = total
         /\ result' =
              [ risk_score |-> Round2(total),
                risk_category |-> classify_risk(total, TRUE, flags),
                error |-> "", details |-> "report",
                component_scores |-> scores ]
  /\ fetches' = fetches + ScoringFetches("aml_data", chain, keys, FALSE)
                        + ScoringFetches("compliance_data", chain, keys, FALSE)
  /\ pc' = "twin_done"
  /\ UNCHANGED << token, chain, world, keys, raw, data, idx, raised,
                  executed >>
  /\ UNCHANGED << batch_vars, bar_vars >>

NextNeutral == ScoreComponent \/ Aggregate \/ Finish \/ AssessTwin

SpecNeutral == InitNeutral /\ [][NextNeutral]_vars

\* C18: mica_no_whitepaper among the red flags changes neither the
\* composite score nor the category: the assessment of the record without
\* the flag returns the same score and the same category.
C18_WhitepaperFlagNeutral ==
  [][(pc = "done" /\ pc' = "twin_done") =>
       /\ result'.risk_score = result.risk_score
       /\ result'.risk_category = result.risk_category]_vars

\* C19: with the component scores fixed, one more flag in the collection
\* never lowers the clamped score, and a flag name outside the boost table
\* adds 0.
C19_BoostMonotonic ==
  [][(pc = "agg_flags" /\ pc' = "agg_flags") =>
       /\ ClampTotal(total_risk_score') >= ClampTotal(total_risk_score)
       /\ BagIn("unknown_flag",
                risk_report'.red_flags (-) risk_report.red_flags)
            => total_risk_score' = total_risk_score]_vars

\* a flag list with a name outside the table, the flag of boost 0 and the
\* flag of the largest boost
C19_Witness ==
  /\ pc = "agg_clamped"
  /\ risk_report.red_flags =
       SetToBag({"unknown_flag", "mica_no_whitepaper",
                 "eu_unlicensed_stablecoin"})
  /\ total_risk_score >= Twentieths(50)

\* C20: the 15 weights sum to exactly 1.0, so the weighted sum of component
\* scores of [1, 10], before any boost, is at least 10.
C20_WeightsSumToOne ==
  (pc = "agg_flags" /\ risk_report.red_flags = EmptyBag) =>
    /\ WeightedSum([c \in ComponentNames |-> 1], 1) = 100
    /\ total_risk_score >= Twentieths(10)

(***************************************************************************)
(* Two scoring functions in full, called on their own: the cascade of      *)
(* score_whitepaper_quality over the documentation facts of the record,    *)
(* and score_aml_data, which reads the answers of CertiK, Scorechain and   *)
(* TRM Labs and nothing of the record.                                     *)
(***************************************************************************)
\* one signal of a cascade: 'score += ds', 'data_found = True' when df,
\* 'documentation_score += dd'
Signal(ds, df, dd) == [ score |-> ds, found |-> df, doc |-> dd ]

\* score_whitepaper_quality, lines 2187-2236: the signals of the homepage,
\* whitepaper and GitHub links, of the social links and of the description
DocumentSignals(p) ==
  << IF p.homepage THEN Signal(-2, TRUE, 2) ELSE Signal(4, FALSE, -2),
     IF p.whitepaper THEN Signal(-4, TRUE, 3) ELSE Signal(4, FALSE, -3),
     IF p.github THEN Signal(-2, TRUE, 2) ELSE Signal(2, FALSE, -1),
     IF p.social_presence >= 3 THEN Signal(-2, TRUE, 2)
     ELSE IF p.social_presence >= 2 THEN Signal(-1, TRUE, 1)
     ELSE IF p.social_presence = 0 THEN Signal(2, FALSE, -1)
     ELSE Signal(0, FALSE, 0),
     IF p.description = "long" THEN Signal(-2, TRUE, 2)
     ELSE IF p.description = "detailed" THEN Signal(-1, TRUE, 1)
     ELSE IF p.description \in {"none", "short"} THEN Signal(2, FALSE, -1)
     ELSE Signal(0, FALSE, 0) >>

\* score_whitepaper_quality, 'if not data_found': the signals of the market
\* cap (in thousands of dollars), of the holders and of the professional
\* links; onchain.contract_source and 'enhanced' are never in the record
FallbackSignals(rr) ==
  << IF rr.project.market_cap > 100000 THEN Signal(-2, FALSE, 2)
     ELSE IF rr.project.market_cap > 10000 THEN Signal(0, FALSE, 1)
     ELSE IF rr.project.market_cap < 100 THEN Signal(2, FALSE, -1)
     ELSE Signal(0, FALSE, 0),
     IF rr.total_holders > 50000 THEN Signal(-2, FALSE, 2)
     ELSE IF rr.total_holders > 10000 THEN Signal(0, FALSE, 1)
     ELSE IF rr.total_holders < 1000 THEN Signal(2, FALSE, -1)
     ELSE Signal(0, FALSE, 0),
     IF rr.project.professional_links >= 2 THEN Signal(-2, FALSE, 2)
     ELSE IF rr.project.professional_links >= 1 THEN Signal(0, FALSE, 1)
     ELSE Signal(0, FALSE, 0) >>

\* score_whitepaper_quality: 5, the signals in order, the adjustment by
\* documentation_score, the cap for a large market cap, the clamp
score_whitepaper_quality(rr) ==
  LET d == DocumentSignals(rr.project)
      f == FallbackSignals(rr)
      data_found == \E i \in 1..5 : d[i].found
      score == HalfPoints(5)
                 + d[1].score + d[2].score + d[3].score + d[4].score
                 + d[5].score
                 + (IF data_found THEN 0
                    ELSE f[1].score + f[2].score + f[3].score)
      documentation_score ==
        d[1].doc + d[2].doc + d[3].doc + d[4].doc + d[5].doc
          + (IF data_found THEN 0 ELSE f[1].doc + f[2].doc + f[3].doc)
      adjusted ==
        IF documentation_score >= 8
          THEN Max(HalfPoints(1), score - HalfPoints(2))
        ELSE IF documentation_score >= 6
          THEN Max(HalfPoints(1), score - HalfPoints(1))
        ELSE IF documentation_score <= -6
          THEN Min(HalfPoints(10), score + HalfPoints(2))
        ELSE IF documentation_score <= -4
          THEN Min(HalfPoints(10), score + HalfPoints(1))
        ELSE score
      capped ==
        IF rr.project.market_cap > 10000000
          THEN Min(adjusted, HalfPoints(7))
        ELSE IF rr.project.market_cap > 1000000
          THEN Min(adjusted, HalfPoints(8))
        ELSE adjusted
  IN  Clamp10(capped)

\* the score_delta of fetch_scorechain_aml; a failed request (or a missing
\* key) raises, and score_aml_data then adds nothing
ScorechainDelta(answer) ==
  CASE answer = "high" -> HalfPoints(3)
    [] answer = "medium" -> HalfPoints(1)
    [] answer = "low" -> 0 - HalfPoints(2)
    [] OTHER -> 0

\* the score_delta of fetch_trmlabs_aml, on the class of the riskScore
TrmDelta(answer) ==
  CASE answer = "high" -> HalfPoints(3)
    [] answer = "medium" -> HalfPoints(1)
    [] answer = "low" -> 0 - HalfPoints(2)
    [] OTHER -> 0

\* score_aml_data: 10, the CertiK report (fetched on eth and bsc with a
\* key), the two deltas, and the rounding clamp
score_aml_data(w, c, k) ==
  LET certik == IF c \in {"eth", "bsc"} /\ k THEN w.certik ELSE "none"
      certik_delta ==
        CASE certik = "audited_high" -> 0 - HalfPoints(3)
          [] certik = "audited" -> 0 - HalfPoints(2)
          [] certik = "unaudited" -> HalfPoints(3)
          [] OTHER -> 0
      scorechain == IF k THEN ScorechainDelta(w.scorechain) ELSE 0
      trm == IF k THEN TrmDelta(w.trm) ELSE 0
  IN  Clamp9(HalfPoints(10) + certik_delta + scorechain + trm)

ScoringProjects ==
  [ stable_indicator : {FALSE}, stable_keyword : {FALSE},
    eu_establishment : {FALSE}, mica_authorization : {FALSE},
    whitepaper : BOOLEAN, homepage : BOOLEAN, github : {FALSE},
    social_presence : {0, 2, 3}, professional_links : {0, 2},
    description : {"none", "detailed", "long"},
    market_cap : {0, 50000, 20000000} ]

AmlAnswers ==
  { [QuietWorld EXCEPT !.certik = a, !.scorechain = b, !.trm = c] :
      a \in {"none", "audited_high", "unaudited"},
      b \in {"error", "high", "low"},
      c \in {"error", "low"} }

InitScoring ==
  /\ token = UNLISTED
  /\ chain = "eth"
  /\ world \in AmlAnswers
  /\ keys \in BOOLEAN
  /\ raw = 11
  /\ pc = "score_whitepaper_quality"
  /\ \E project \in ScoringProjects, holders \in {0, 60000} :
       risk_report =
         [NewReport(token) EXCEPT
            !.project = project, !.total_holders = holders]
  /\ data = NewData
  /\ component_scores = NoScores
  /\ idx = 1
  /\ raised = {}
  /\ total_risk_score = 0
  /\ result = NoResult
  /\ fetches = 0
  /\ executed = {}
  /\ NoBatch /\ NoBar

\* score_whitepaper_quality(risk_report)
ScoreWhitepaper ==
  /\ pc = "score_whitepaper_quality"
  /\ component_scores' =
       [component_scores EXCEPT
          !["whitepaper_quality"] = score_whitepaper_quality(risk_report)]
  /\ pc' = "score_aml_data"
  /\ UNCHANGED << token, chain, world, keys, raw, risk_report, data, idx,
                  raised, total_risk_score, result, fetches, executed >>
  /\ UNCHANGED << batch_vars, bar_vars >>

\* score_aml_data(risk_report, token_address, chain)
ScoreAml ==
  /\ pc = "score_aml_data"
  /\ component_scores' =
       [component_scores EXCEPT
          !["aml_data"] = score_aml_data(world, chain, keys)]
  /\ fetches' = fetches + ScoringFetches("aml_data", chain, keys, FALSE)
  /\ pc' = "scored"
  /\ UNCHANGED << token, chain, world, keys, raw, risk_report, data, idx,
                  raised, total_risk_score, result, executed >>
  /\ UNCHANGED << batch_vars, bar_vars >>

\* a second call of score_aml_data on the same record, at a time when the
\* services may answer differently
ScoreAmlAgain ==
  /\ pc = "scored"
  /\ \E answers \in AmlAnswers :
       /\ world' = answers
       /\ component_scores' =
            [component_scores EXCEPT
               !["aml_data"] = score_aml_data(answers, chain, keys)]
  /\ fetches' = fetches + ScoringFetches("aml_data", chain, keys, FALSE)
  /\ pc' = "scored_again"
  /\ UNCHANGED << token, chain, keys, raw, risk_report, data, idx, raised,
                  total_risk_score, result, executed >>
  /\ UNCHANGED << batch_vars, bar_vars >>

NextScoring == ScoreWhitepaper \/ ScoreAml \/ ScoreAmlAgain

SpecScoring == InitScoring /\ [][NextScoring]_vars

\* C21: every component score a scoring function produces is an integer.
C21_ScoresAreIntegers ==
  \A c \in ComponentNames : component_scores[c] % HalfPoints(1) = 0

\* C22: a scoring function called on an entirely empty fact record returns
\* exactly 7.
C22_EmptyRecordScoresSeven ==
  (/\ risk_report.project = EmptyProject
   /\ risk_report.total_holders = 0) =>
    \A c \in ComponentNames :
      component_scores[c] # 0 => component_scores[c] = HalfPoints(7)

\* C23: two calls of a scoring function with identical fact records return
\* identical scores, whatever the external services answer at the time of
\* each call.
C23_ScoringDeterministic ==
  [][(pc = "scored" /\ pc' = "scored_again"
      /\ risk_report' = risk_report) =>
       component_scores' = component_scores]_vars

\* C24: a flag found by an earlier pass is never removed by a later one:
\* no step takes a flag name out of the record's red flags, and once
\* fetch_onchain_data's result is merged every flag detect_red_flags
\* returned is in the record, up to the end of the assessment.
C24_FlagsOnlyGrow ==
  [][/\ \A f \in BagToSet(risk_report.red_flags) :
          BagIn(f, risk_report'.red_flags)
     /\ pc' \notin {"start", "fetch_onchain", "detect", "fetch_onchain_extra"}
          => \A f \in BagToSet(data'.red_flags) :
               BagIn(f, risk_report'.red_flags)]_vars

\* an assessment that ended with a detected flag and a flag of the
\* compliance pass in its record
C24_Witness ==
  /\ pc = "done" /\ result.details = "report"
  /\ BagIn("high_concentration", data.red_flags)
  /\ BagIn("high_concentration", risk_report.red_flags)
  /\ BagIn("mica_no_whitepaper", risk_report.red_flags)

(***************************************************************************)
(* process_token_batch: the tokens of the input file are handed, in order, *)
(* to the worker threads of a ThreadPoolExecutor; each runs process_one.   *)
(***************************************************************************)
MaxTokens == 2
\* max_workers of the ThreadPoolExecutor (5 in the source)
MaxWorkers == 2

\* one row of the input file with what the sources answer for it: holders
\* is Etherscan's tokeninfo count, breadcrumbs the answer of the Breadcrumbs
\* risk-score request ("data" carries holdersCount, "403" is the Cloudflare
\* block), bitquery the answer of BitQuery ("401" is the rejected key)
TokenRow(c, h, b, n, q, l) ==
  [ address |-> UNLISTED, chain |-> c, holders |-> h, breadcrumbs |-> b,
    holdersCount |-> n, bitquery |-> q, liquidity |-> l ]

TokenRows ==
  { TokenRow("eth", 0, "403", 0, "401", 1000),
    TokenRow("eth", 0, "data", 5000, "data", 1000),
    TokenRow("Solana", 5000, "none", 0, "data", 1000),
    TokenRow("eth", 5000, "none", 0, "data", 0),
    TokenRow("eth", 5000, "none", 0, "data", NonNumeric),
    TokenRow("eth", 5000, "data", 6000, "data", 9000000) }

\* fetch_breadcrumbs_risk_score: None once _breadcrumbs_blocked is set
fetch_breadcrumbs_risk_score(t, blocked) ==
  IF blocked THEN "None"
  ELSE IF t.breadcrumbs = "data" THEN "data"
  ELSE "None"

\* fetch_bitquery_data: the zero record once bitquery_available is False,
\* and on a 401
fetch_bitquery_data(t, available) ==
  IF ~available THEN "zero"
  ELSE IF t.bitquery = "401" THEN "zero"
  ELSE "data"

\* what the sources answer for the token, as get_holder_data combines them:
\* total_holders = max(total_holders, breadcrumbs_risk['holdersCount'])
TokenWorld(t, blocked) ==
  [QuietWorld EXCEPT
     !.holders = IF fetch_breadcrumbs_risk_score(t, blocked) = "data"
                   THEN Max(t.holders, t.holdersCount) ELSE t.holders,
     !.liquidity = t.liquidity]

\* assess_token as process_one sees it: the early exit, the fallback of the
\* outer except, or the report, of which process_one reads
\* details.onchain.holders.total_holders and details.onchain.liquidity
assess_token(t, blocked, available) ==
  LET c == Lower(t.chain)
      w == TokenWorld(t, blocked)
      h == get_holder_data(t.address, c, w)
      fetched ==
        [NewData EXCEPT
           !.contract_verified =
              get_contract_verification_status(t.address, c, w),
           !.total_holders = h.total_holders,
           !.top10_concentration = h.top10_concentration,
           !.liquidity = get_liquidity_data(t.address, c, w),
           !.red_flags = detect_red_flags(t.address, c, w)]
      r == apply_strict_compliance_checks(
             MergeOnchain(NewReport(t.address), fetched), c)
  IN  IF c \notin DOMAIN CHAIN_CONFIG
        THEN [ details |-> "error", error |-> UnsupportedResult(c).error,
               risk_category |-> UnsupportedResult(c).risk_category,
               total_holders |-> 0, liquidity |-> 0, bitquery |-> "None" ]
      ELSE IF r.raised
        THEN [ details |-> "error", error |-> ErrorResult(TypeErrorText).error,
               risk_category |-> ErrorResult(TypeErrorText).risk_category,
               total_holders |-> 0, liquidity |-> 0, bitquery |-> "None" ]
      ELSE [ details |-> "report", error |-> "", risk_category |-> "scored",
             total_holders |-> r.report.total_holders,
             liquidity |-> r.report.liquidity,
             bitquery |-> fetch_bitquery_data(t, available) ]

\* a token of the batch: its row, and what assess_token returns for it under
\* each value of the two shared flags
BatchTokens ==
  { [ row |-> t,
      assessed |-> [ blocked \in BOOLEAN, available \in BOOLEAN |->
                       assess_token(t, blocked, available) ] ] :
    t \in TokenRows }

\* the entry process_one appends for the token at position i
Entry(i, t, res) ==
  [ index |-> i, token |-> t.address, chain |-> Lower(t.chain),
    details |-> res.details, error |-> res.error,
    risk_category |-> res.risk_category,
    total_holders |-> res.total_holders, liquidity |-> res.liquidity,
    bitquery |-> res.bitquery ]

process_one_except_NoAppend(rs, i, t) == rs
\* the except clause of process_one: results.append of an entry with the
\* text of the exception, here the KeyError of result['details']['onchain']
process_one_except(rs, i, t) ==
  Append(rs, [ index |-> i, token |-> t.address, chain |-> Lower(t.chain),
               details |-> "none", error |-> "'onchain'",
               risk_category |-> "Extreme Risk",
               total_holders |-> 0, liquidity |-> 0, bitquery |-> "None" ])

\* a worker thread that runs no call of process_one
IdleWorker ==
  [ state |-> "idle", index |-> 0, loaded |-> 0,
    result |-> [ details |-> "none", error |-> "", risk_category |-> "",
                 total_holders |-> 0, liquidity |-> 0, bitquery |-> "None" ] ]

\* the assessment variables while a batch runs
NoAssessment ==
  /\ token = UNLISTED
  /\ chain = "eth"
  /\ world = QuietWorld
  /\ keys = TRUE
  /\ raw = 11
  /\ pc = "batch"
  /\ risk_report = NewReport(UNLISTED)
  /\ data = NewData
  /\ component_scores = NoScores
  /\ idx = 1
  /\ raised = {}
  /\ total_risk_score = 0
  /\ result = NoResult
  /\ fetches = 0
  /\ executed = {}

InitBatch ==
  /\ NoAssessment
  /\ NoBar
  /\ tokens \in UNION { [1..n -> BatchTokens] : n \in 1..MaxTokens }
  /\ workers = [w \in 1..MaxWorkers |-> IdleWorker]
  /\ submitted = 0
  /\ results = << >>
  /\ fallback_count = 0
  /\ api_error_count = 0
  /\ breadcrumbs_blocked = FALSE
  /\ bitquery_available = TRUE
  /\ summary = NoSummary

\* a free worker thread takes the next submitted call of process_one
Take(w) ==
  /\ workers[w].state = "idle"
  /\ submitted < Len(tokens)
  /\ submitted' = submitted + 1
  /\ workers' = [workers EXCEPT ![w] =
                   [IdleWorker EXCEPT !.state = "assess",
                                      !.index = submitted + 1]]
  /\ UNCHANGED << tokens, results, fallback_count, api_error_count,
                  breadcrumbs_blocked, bitquery_available, summary >>
  /\ UNCHANGED << assess_vars, bar_vars >>

\* result = analyzer.assess_token(address, chain, ...): the fetches read
\* the two shared flags, a 403 of Breadcrumbs sets _breadcrumbs_blocked and
\* a 401 of BitQuery clears bitquery_available
Assess(w) ==
  /\ workers[w].state = "assess"
  /\ LET t == tokens[workers[w].index].row
         supported == Lower(t.chain) \in DOMAIN CHAIN_CONFIG
     IN  /\ workers' = [workers EXCEPT
              ![w].result =
                 tokens[workers[w].index].assessed[breadcrumbs_blocked,
                                                   bitquery_available],
              ![w].state = "check"]
         /\ breadcrumbs_blocked' =
              (breadcrumbs_blocked \/ (supported /\ t.breadcrumbs = "403"))
         /\ bitquery_available' =
              (bitquery_available /\ ~(supported /\ t.bitquery = "401"))
  /\ UNCHANGED << tokens, submitted, results, fallback_count,
                  api_error_count, summary >>
  /\ UNCHANGED << assess_vars, bar_vars >>

\* 'if result['details']['onchain']['holders']['total_holders'] == 0 or
\* result['details']['onchain']['liquidity'] == 0': a KeyError when details
\* holds only 'error'; when true, the load of 'fallback_count += 1'
CheckFallback(w) ==
  /\ workers[w].state = "check"
  /\ LET res == workers[w].result
     IN  workers' = [workers EXCEPT ![w] =
           IF res.details # "report" THEN [@ EXCEPT !.state = "except"]
           ELSE IF res.total_holders = 0 \/ res.liquidity = 0
             THEN [@ EXCEPT !.state = "store", !.loaded = fallback_count]
           ELSE [@ EXCEPT !.state = "append"]]
  /\ UNCHANGED << tokens, submitted, results, fallback_count,
                  api_error_count, breadcrumbs_blocked, bitquery_available,
                  summary >>
  /\ UNCHANGED << assess_vars, bar_vars >>

\* the store of 'fallback_count += 1'
StoreFallback(w) ==
  /\ workers[w].state = "store"
  /\ fallback_count' = workers[w].loaded + 1
  /\ workers' = [workers EXCEPT ![w].state = "append"]
  /\ UNCHANGED << tokens, submitted, results, api_error_count,
                  breadcrumbs_blocked, bitquery_available, summary >>
  /\ UNCHANGED << assess_vars, bar_vars >>

\* 'if 'error' in result['details']: api_error_count += 1', then
\* results.append(result) and the summary of the token
AppendResult(w) ==
  /\ workers[w].state = "append"
  /\ api_error_count' =
       IF workers[w].result.details = "error"
         THEN api_error_count + 1 ELSE api_error_count
  /\ results' = Append(results, Entry(workers[w].index,
                                      tokens[workers[w].index].row,
                                      workers[w].result))
  /\ workers' = [workers EXCEPT ![w] = IdleWorker]
  /\ UNCHANGED << tokens, submitted, fallback_count, breadcrumbs_blocked,
                  bitquery_available, summary >>
  /\ UNCHANGED << assess_vars, bar_vars >>

\* 'except Exception as e' of process_one
ExceptHandler(w) ==
  /\ workers[w].state = "except"
  /\ results' = process_one_except(results, workers[w].index,
                                   tokens[workers[w].index].row)
  /\ workers' = [workers EXCEPT ![w] = IdleWorker]
  /\ UNCHANGED << tokens, submitted, fallback_count, api_error_count,
                  breadcrumbs_blocked, bitquery_available, summary >>
  /\ UNCHANGED << assess_vars, bar_vars >>

\* after the executor has joined its threads: the reports and the summary
\* file with the two counters
WriteSummary ==
  /\ ~ summary.written
  /\ submitted = Len(tokens)
  /\ \A w \in 1..MaxWorkers : workers[w].state = "idle"
  /\ summary' = [ written |-> TRUE, total |-> Len(tokens),
                  fallback |-> fallback_count,
                  api_errors |-> api_error_count ]
  /\ UNCHANGED << tokens, workers, submitted, results, fallback_count,
                  api_error_count, breadcrumbs_blocked, bitquery_available >>
  /\ UNCHANGED << assess_vars, bar_vars >>

NextBatch ==
  \/ \E w \in 1..MaxWorkers : Take(w)
  \/ \E w \in 1..MaxWorkers : Assess(w)
  \/ \E w \in 1..MaxWorkers : CheckFallback(w)
  \/ \E w \in 1..MaxWorkers : StoreFallback(w)
  \/ \E w \in 1..MaxWorkers : AppendResult(w)
  \/ \E w \in 1..MaxWorkers : ExceptHandler(w)
  \/ WriteSummary

SpecBatch == InitBatch /\ [][NextBatch]_vars

\* the entries of results that belong to the token at position i
EntriesOf(i) == { k \in 1..Len(results) : results[k].index = i }

\* C25: the result of assessing a token does not depend on the tokens
\* assessed before it or next to it: every entry of results is the one the
\* token gets when it is assessed alone (no flag set by another token).
C25_AssessmentsIndependent ==
  \A k \in 1..Len(results) :
    results[k].details = "report" =>
      results[k] = Entry(results[k].index, tokens[results[k].index].row,
                         tokens[results[k].index].assessed[FALSE, TRUE])

\* the threads of the pool are scheduled until each has returned, and the
\* 'with' block of process_token_batch waits for them
SpecBatchFair == SpecBatch /\ WF_vars(NextBatch)

C28_ErrorCount ==
  summary.written =>
    summary.api_errors =
      Cardinality({ k \in 1..Len(results) : results[k].error # "" })

\* C29: the reported fallback count is the number of tokens whose result
\* has total holders 0 or liquidity 0, under every interleaving.
C29_FallbackCount ==
  summary.written =>
    summary.fallback =
      Cardinality({ k \in 1..Len(results) :
                      /\ results[k].details = "report"
                      /\ \/ results[k].total_holders = 0
                         \/ results[k].liquidity = 0 })

\* C27: in one assessment the boost of a flag name is added to the
\* composite score at most once: the aggregated score is the clamped sum of
\* the weighted components and of one boost per flag name in the record.
C27_BoostAtMostOnce ==
  "aggregate" \in executed =>
    total_risk_score =
      ClampTotal(WeightedSum(component_scores, 1)
                   + BoostSum(SetToBag(BagToSet(risk_report.red_flags))))

(***************************************************************************)
(* working_progress_bar.py: the two bars behind the module-level           *)
(* functions, driven by the calls process_token_batch makes.               *)
(***************************************************************************)
\* WorkingProgressBar.__init__ and _create_progress_window: is_running says
\* whether the HTML file was written and the browser opened
WorkingProgressBar(total_tokens, opened) ==
  [ object |-> TRUE, total_tokens |-> total_tokens, current_token |-> 0,
    current_phase |-> 0, completed_phases |-> 0,
    total_phases |-> total_tokens * 3, is_running |-> opened,
    finished |-> FALSE ]

\* ConsoleProgressBar.__init__
ConsoleProgressBar(total_tokens) ==
  [ object |-> TRUE, total_tokens |-> total_tokens, current_token |-> 0,
    current_phase |-> 0, completed_phases |-> 0,
    total_phases |-> total_tokens * 2 + 1, is_running |-> TRUE,
    finished |-> FALSE ]

\* WorkingProgressBar._update_progress_bar: a failed write of the HTML file
\* clears is_running
update_progress_bar(bar, written) ==
  IF ~bar.is_running \/ bar.finished THEN bar
  ELSE IF written THEN bar
  ELSE [bar EXCEPT !.is_running = FALSE]

\* WorkingProgressBar.update_phase
WorkingUpdatePhase(bar, phase_index, written) ==
  IF ~bar.is_running \/ bar.finished THEN bar
  ELSE update_progress_bar([bar EXCEPT !.current_phase = phase_index],
                           written)

\* WorkingProgressBar.next_token
WorkingNextToken(bar, written) ==
  IF ~bar.is_running \/ bar.finished THEN bar
  ELSE update_progress_bar(
         [bar EXCEPT !.current_token = @ + 1, !.current_phase = 0,
                     !.completed_phases = bar.current_token * 3],
         written)

\* WorkingProgressBar.complete_phase
WorkingCompletePhase(bar, written) ==
  IF ~bar.is_running \/ bar.finished THEN bar
  ELSE LET stepped ==
             IF bar.completed_phases >= bar.total_phases THEN bar
             ELSE IF bar.completed_phases + 1 >= bar.total_phases
               THEN [bar EXCEPT !.completed_phases = bar.total_phases,
                                !.current_phase = 2,
                                !.is_running = FALSE]
             ELSE [bar EXCEPT !.completed_phases = @ + 1,
                              !.current_phase = @ + 1]
       IN  update_progress_bar(stepped, written)

\* ConsoleProgressBar.update_phase, called with a message
ConsoleUpdatePhase(bar, phase_index) ==
  [bar EXCEPT !.current_phase = phase_index]

\* ConsoleProgressBar.next_token
ConsoleNextToken(bar) ==
  [bar EXCEPT !.current_token = @ + 1, !.current_phase = 0,
              !.completed_phases = bar.current_token * 2]

\* ConsoleProgressBar.complete_phase
ConsoleCompletePhase(bar) ==
  [bar EXCEPT !.completed_phases = @ + 1, !.current_phase = @ + 1]

\* the calls process_token_batch makes for each finished token
TokenCalls ==
  << [call |-> "next_token", phase_index |-> 0],
     [call |-> "update_phase", phase_index |-> 0],
     [call |-> "complete_phase", phase_index |-> 0],
     [call |-> "update_phase", phase_index |-> 1],
     [call |-> "complete_phase", phase_index |-> 1] >>

\* the calls process_token_batch makes once every token is done
ReportCalls ==
  << [call |-> "complete_phase", phase_index |-> 1],
     [call |-> "update_phase", phase_index |-> 2],
     [call |-> "complete_phase", phase_index |-> 2],
     [call |-> "complete_phase", phase_index |-> 2],
     [call |-> "finish", phase_index |-> 2] >>

\* the next call of the batch, after 'calls' calls
NextCall ==
  LET total == IF progress_type = "console"
                 THEN console_progress_bar.total_tokens
                 ELSE working_progress_bar.total_tokens
  IN  IF progress_type = "none" \/ calls >= 5 * total + 5
        THEN [call |-> "none", phase_index |-> 0]
      ELSE IF calls < 5 * total THEN TokenCalls[(calls % 5) + 1]
      ELSE ReportCalls[calls - 5 * total + 1]

InitBar ==
  /\ NoAssessment
  /\ NoBatch
  /\ NoBar

\* initialize_progress_bar: initialize_working_progress_bar binds the global
\* and returns is_running; on False initialize_console_progress_bar binds
\* the other global
InitializeProgressBar ==
  /\ progress_type = "none"
  /\ \E total \in 1..MaxTokens, opened \in BOOLEAN :
       /\ working_progress_bar' = WorkingProgressBar(total, opened)
       /\ IF working_progress_bar'.is_running
            THEN /\ progress_type' = "working"
                 /\ console_progress_bar' = console_progress_bar
            ELSE /\ progress_type' = "console"
                 /\ console_progress_bar' = ConsoleProgressBar(total)
  /\ calls' = 0
  /\ UNCHANGED << assess_vars, batch_vars >>

\* update_progress_phase(phase_index, message)
UpdateProgressPhase ==
  /\ NextCall.call = "update_phase"
  /\ IF working_progress_bar.object
       THEN /\ \E written \in BOOLEAN :
                 working_progress_bar' =
                   WorkingUpdatePhase(working_progress_bar,
                                      NextCall.phase_index, written)
            /\ console_progress_bar' = console_progress_bar
       ELSE /\ working_progress_bar' = working_progress_bar
            /\ console_progress_bar' =
                 IF console_progress_bar.object
                   THEN ConsoleUpdatePhase(console_progress_bar,
                                           NextCall.phase_index)
                   ELSE console_progress_bar
  /\ calls' = calls + 1
  /\ UNCHANGED << progress_type, assess_vars, batch_vars >>

\* next_token_progress(token_name)
NextTokenProgress ==
  /\ NextCall.call = "next_token"
  /\ IF working_progress_bar.object
       THEN /\ \E written \in BOOLEAN :
                 working_progress_bar' =
                   WorkingNextToken(working_progress_bar, written)
            /\ console_progress_bar' = console_progress_bar
       ELSE /\ working_progress_bar' = working_progress_bar
            /\ console_progress_bar' =
                 IF console_progress_bar.object
                   THEN ConsoleNextToken(console_progress_bar)
                   ELSE console_progress_bar
  /\ calls' = calls + 1
  /\ UNCHANGED << progress_type, assess_vars, batch_vars >>

\* complete_phase_progress(message)
CompletePhaseProgress ==
  /\ NextCall.call = "complete_phase"
  /\ IF working_progress_bar.object
       THEN /\ \E written \in BOOLEAN :
                 working_progress_bar' =
                   WorkingCompletePhase(working_progress_bar, written)
            /\ console_progress_bar' = console_progress_bar
       ELSE /\ working_progress_bar' = working_progress_bar
            /\ console_progress_bar' =
                 IF console_progress_bar.object
                   THEN ConsoleCompletePhase(console_progress_bar)
                   ELSE console_progress_bar
  /\ calls' = calls + 1
  /\ UNCHANGED << progress_type, assess_vars, batch_vars >>

\* finish_progress_bar(message): finish() of the bar the call reaches, and
\* the global of that bar set to None
FinishProgressBar ==
  /\ NextCall.call = "finish"
  /\ IF working_progress_bar.object
       THEN /\ working_progress_bar' = NoneBar
            /\ console_progress_bar' = console_progress_bar
       ELSE /\ working_progress_bar' = working_progress_bar
            /\ console_progress_bar' = NoneBar
  /\ calls' = calls + 1
  /\ UNCHANGED << progress_type, assess_vars, batch_vars >>

NextBar ==
  \/ InitializeProgressBar
  \/ UpdateProgressPhase
  \/ NextTokenProgress
  \/ CompletePhaseProgress
  \/ FinishProgressBar

SpecBar == InitBar /\ [][NextBar]_vars

\* C30: when initialize_progress_bar returned "console", the calls the
\* batch makes reach the console progress bar: each complete_phase_progress
\* call advances its completed_phases by one.
C30_ConsoleBarAdvances ==
  [][(/\ progress_type = "console"
      /\ NextCall.call = "complete_phase"
      /\ calls' = calls + 1) =>
       console_progress_bar'.completed_phases =
         console_progress_bar.completed_phases + 1]_vars

====
